---- MODULE Spec2Model ----
(***************************************************************************)
(* Model of src-tauri/icons/generate.py: the icon generator that reads     *)
(* logo.png and writes four PNGs, a front-end PNG, icon.ico and icon.icns. *)
(* One run of main() is a sequence of steps; the file system survives from *)
(* one run to the next.                                                    *)
(***************************************************************************)
EXTENDS Integers, Sequences, FiniteSets, TLC

\* ---------------------------------------------------------------- bounds
MaxRuns == 2
NumSources == 2

\* ------------------------------------------------------- paths (l.11-23)
SCRIPT_DIR == "src-tauri/icons"
ASSETS_DIR == "src/assets"

join(dir, name) == <<dir, name>>
dirname(path) == path[1]

SOURCE == join("root", "logo.png")

PNG_SIZES ==
  << [filename |-> "32x32.png", size |-> 32],
     [filename |-> "128x128.png", size |-> 128],
     [filename |-> "128x128@2x.png", size |-> 256],
     [filename |-> "icon.png", size |-> 512] >>

FRONTEND_ICON == join(ASSETS_DIR, "icon.png")
FRONTEND_SIZE == 256
ico_sizes == <<16, 24, 32, 48, 64, 128, 256>>
ico_path == join(SCRIPT_DIR, "icon.ico")
icns_path == join(SCRIPT_DIR, "icon.icns")

PngPaths == {join(SCRIPT_DIR, PNG_SIZES[k].filename) : k \in DOMAIN PNG_SIZES}
OutputPaths == PngPaths \cup {FRONTEND_ICON, ico_path, icns_path}

\* ------------------------------------------------------ images and files
\* An in-memory image: its dimensions, its pixel mode, the source picture it
\* shows (base) and the number of resampling steps between it and the decoded
\* source (gen).
NoImage == [w |-> 0, h |-> 0, mode |-> "", base |-> 0, gen |-> 0]

\* What can be found at SOURCE on disk.
Missing == [kind |-> "missing", w |-> 0, h |-> 0, mode |-> "", id |-> 0]
Garbage == [kind |-> "garbage", w |-> 0, h |-> 0, mode |-> "", id |-> 0]
Shapes == { [w |-> 1024, h |-> 1024, mode |-> "RGBA"],
            [w |-> 20, h |-> 10, mode |-> "RGB"] }
Logos == {Missing, Garbage} \cup
         { [kind |-> "image", w |-> s.w, h |-> s.h, mode |-> s.mode, id |-> n] :
             s \in Shapes, n \in 1..NumSources }

\* What can be found at an output path on disk.
NoFile == [fmt |-> "none", run |-> 0, frames |-> {}]
Partial(r) == [fmt |-> "partial", run |-> r, frames |-> {}]
File(fmt, r, frames) == [fmt |-> fmt, run |-> r, frames |-> frames]

Range(s) == {s[k] : k \in DOMAIN s}
Last(s) == s[Len(s)]

\* ------------------------------------------------------- library calls
\* Image.open(SOURCE): the decoded picture, in the file's own mode.
open(disk) == [w |-> disk.w, h |-> disk.h, mode |-> disk.mode,
               base |-> disk.id, gen |-> 0]

\* .convert("RGBA")
convert(image, mode) == [image EXCEPT !.mode = mode]

\* A resize that keeps the aspect ratio and never enlarges (Image.thumbnail).
resizeThumbnail(source_img, size) ==
  LET fits == source_img.w <= size /\ source_img.h <= size
      wide == source_img.w >= source_img.h
  IN  [w |-> IF fits THEN source_img.w
             ELSE IF wide THEN size
             ELSE (source_img.w * size) \div source_img.h,
       h |-> IF fits THEN source_img.h
             ELSE IF wide THEN (source_img.h * size) \div source_img.w
             ELSE size,
       mode |-> source_img.mode,
       base |-> source_img.base,
       gen |-> source_img.gen + 1]

\* resize(source_img, size): a new square image, the argument is untouched.
resize(source_img, size) ==
  [w |-> size, h |-> size, mode |-> source_img.mode,
   base |-> source_img.base, gen |-> source_img.gen + 1]

\* im.save(path, format="ICO", sizes=..., append_images=...): the frames the
\* ICO writer stores.  A requested size larger than the image being saved
\* (im, the receiver of save) or than 256 is ignored; for every size kept, the
\* first of im and append_images with exactly that size is stored, and
\* failing that a copy of im scaled down to it (im is square here).
IcoFrames(im, sizes, append_images) ==
  LET provided == <<im>> \o append_images
      kept == {s \in Range(sizes) : s <= im.w /\ s <= im.h /\ s <= 256}
      match(s) == {k \in DOMAIN provided :
                     provided[k].w = s /\ provided[k].h = s}
      first(s) == CHOOSE k \in match(s) : \A j \in match(s) : k <= j
  IN  { IF match(s) # {} THEN provided[first(s)]
        ELSE [im EXCEPT !.w = s, !.h = s, !.gen = @ + 1] :
          s \in kept }

\* How a call of Image.save can end: the file is written ("ok"); the call
\* raises before the file is opened, e.g. no encoder for the format or the
\* path cannot be opened ("refused"); the call raises while encoding
\* ("broken"), which leaves an existing file truncated and removes a file the
\* call had created.
SaveOutcomes == {"ok", "refused", "broken"}

FsAfterSave(files, path, content, outcome, r) ==
  CASE outcome = "ok" -> [files EXCEPT ![path] = content]
    [] outcome = "refused" -> files
    [] outcome = "broken" ->
         [files EXCEPT ![path] = IF files[path] = NoFile THEN NoFile
                                 ELSE Partial(r)]

\* One entry of the log of save calls of the current run.
SaveCall(path, fmt, given, outcome) ==
  [path |-> path, fmt |-> fmt, given |-> given, outcome |-> outcome]

\* ------------------------------------------------------------- printing
Line(text, path, nums) == [text |-> text, path |-> path, nums |-> nums]

ErrorLine == Line("ERROR: Source not found: ", SOURCE, <<>>)
SourceLine(image) == Line("Source: ", SOURCE, <<image.w, image.h>>)
BlankLine == Line("", <<>>, <<>>)
PngLine(filename, size) == Line(filename, <<>>, <<size, size>>)
FrontendLine == Line("src/assets/icon.png (256x256)", <<>>, <<>>)
IcoLine == Line("icon.ico", <<>>, ico_sizes)
IcnsLine == Line("icon.icns", <<>>, <<>>)
WarningLine ==
  Line("Warning: Cannot generate .icns (Pillow ICNS support missing)",
       <<>>, <<>>)
DoneLine == Line("Done. All icons generated from logo.png", <<>>, <<>>)

\* ---------------------------------------------------------------- state
VARIABLES
  logo,      \* what is at SOURCE on disk
  fs,        \* output path -> file on disk
  dirs,      \* TRUE iff the front-end asset directory exists
  fs0,       \* fs when the current run started
  dirs0,     \* dirs when the current run started
  run,       \* number of the current run
  pc,        \* position of the current run in main()
  source,    \* main's local `source`
  img,       \* main's local `img`
  i,         \* index of the PNG_SIZES entry the loop is at
  out,       \* lines printed by the current run
  saves,     \* save calls made by the current run
  loads,     \* number of times the current run decoded SOURCE
  failedAt   \* the step whose exception left main(), or "none"

vars == <<logo, fs, dirs, fs0, dirs0, run, pc, source, img, i, out, saves,
          loads, failedAt>>

Init ==
  /\ logo \in Logos
  /\ fs = [p \in OutputPaths |-> NoFile]
  /\ dirs \in BOOLEAN
  /\ fs0 = fs
  /\ dirs0 = dirs
  /\ run = 1
  /\ pc = "start"
  /\ source = NoImage
  /\ img = NoImage
  /\ i = 1
  /\ out = <<>>
  /\ saves = <<>>
  /\ loads = 0
  /\ failedAt = "none"

\* An uncaught exception leaves main(): nothing else of the run changes.
Raise(step) ==
  /\ pc' = "aborted"
  /\ failedAt' = step

\* ---------------------------------------------------------------- steps
\* A check of the source that reports a missing file and goes on.
CheckSourceNoReturn ==
  /\ pc = "start"
  /\ out' = IF logo = Missing THEN Append(out, ErrorLine) ELSE out
  /\ pc' = "open"
  /\ UNCHANGED <<logo, fs, dirs, fs0, dirs0, run, source, img, i, saves,
                 loads, failedAt>>

\* l.32-34
CheckSource ==
  /\ pc = "start"
  /\ IF logo = Missing
       THEN /\ out' = Append(out, ErrorLine)
            /\ pc' = "returned"
       ELSE /\ out' = out
            /\ pc' = "open"
  /\ UNCHANGED <<logo, fs, dirs, fs0, dirs0, run, source, img, i, saves,
                 loads, failedAt>>

\* A load that reports an undecodable source and returns.
LoadSourceReturnOnError ==
  /\ pc = "open"
  /\ loads' = loads + 1
  /\ IF logo.kind = "image"
       THEN /\ source' = convert(open(logo), "RGBA")
            /\ out' = out \o <<SourceLine(source'), BlankLine>>
            /\ pc' = "png"
       ELSE /\ out' = Append(out, ErrorLine)
            /\ pc' = "returned"
            /\ UNCHANGED source
  /\ UNCHANGED <<logo, fs, dirs, fs0, dirs0, run, img, i, saves, failedAt>>

\* l.36-38
LoadSource ==
  /\ pc = "open"
  /\ loads' = loads + 1
  /\ IF logo.kind = "image"
       THEN /\ source' = convert(open(logo), "RGBA")
            /\ out' = out \o <<SourceLine(source'), BlankLine>>
            /\ pc' = "png"
            /\ UNCHANGED failedAt
       ELSE /\ Raise("decode")
            /\ UNCHANGED <<source, out>>
  /\ UNCHANGED <<logo, fs, dirs, fs0, dirs0, run, img, i, saves>>

\* The loop body reading the previous derived image instead of the source.
GenPngChained ==
  /\ pc = "png"
  /\ LET filename == PNG_SIZES[i].filename
         size == PNG_SIZES[i].size
         output_path == join(SCRIPT_DIR, filename)
     IN  /\ img' = resize(IF img = NoImage THEN source ELSE img, size)
         /\ \E outcome \in SaveOutcomes :
              /\ fs' = FsAfterSave(fs, output_path,
                                   File("PNG", run, {img'}), outcome, run)
              /\ saves' = Append(saves,
                                 SaveCall(output_path, "PNG", {img'}, outcome))
              /\ IF outcome = "ok"
                   THEN /\ out' = Append(out, PngLine(filename, size))
                        /\ i' = IF i < Len(PNG_SIZES) THEN i + 1 ELSE i
                        /\ pc' = IF i < Len(PNG_SIZES) THEN "png"
                                 ELSE "frontend"
                        /\ UNCHANGED failedAt
                   ELSE /\ Raise("png")
                        /\ UNCHANGED <<out, i>>
  /\ UNCHANGED <<logo, dirs, fs0, dirs0, run, source, loads>>

\* The loop body going on to the next entry when a save raises.
GenPngSwallow ==
  /\ pc = "png"
  /\ LET filename == PNG_SIZES[i].filename
         size == PNG_SIZES[i].size
         output_path == join(SCRIPT_DIR, filename)
     IN  /\ img' = resize(source, size)
         /\ \E outcome \in SaveOutcomes :
              /\ fs' = FsAfterSave(fs, output_path,
                                   File("PNG", run, {img'}), outcome, run)
              /\ saves' = Append(saves,
                                 SaveCall(output_path, "PNG", {img'}, outcome))
              /\ out' = IF outcome = "ok"
                          THEN Append(out, PngLine(filename, size)) ELSE out
              /\ i' = IF i < Len(PNG_SIZES) THEN i + 1 ELSE i
              /\ pc' = IF i < Len(PNG_SIZES) THEN "png" ELSE "frontend"
              /\ UNCHANGED failedAt
  /\ UNCHANGED <<logo, dirs, fs0, dirs0, run, source, loads>>

\* l.41-45, one iteration of the loop over PNG_SIZES
GenPng ==
  /\ pc = "png"
  /\ LET filename == PNG_SIZES[i].filename
         size == PNG_SIZES[i].size
         output_path == join(SCRIPT_DIR, filename)
     IN  /\ img' = resize(source, size)
         /\ \E outcome \in SaveOutcomes :
              /\ fs' = FsAfterSave(fs, output_path,
                                   File("PNG", run, {img'}), outcome, run)
              /\ saves' = Append(saves,
                                 SaveCall(output_path, "PNG", {img'}, outcome))
              /\ IF outcome = "ok"
                   THEN /\ out' = Append(out, PngLine(filename, size))
                        /\ i' = IF i < Len(PNG_SIZES) THEN i + 1 ELSE i
                        /\ pc' = IF i < Len(PNG_SIZES) THEN "png"
                                 ELSE "frontend"
                        /\ UNCHANGED failedAt
                   ELSE /\ Raise("png")
                        /\ UNCHANGED <<out, i>>
  /\ UNCHANGED <<logo, dirs, fs0, dirs0, run, source, loads>>

\* l.48-49: resize for the front end, then os.makedirs(..., exist_ok=True),
\* which does nothing when the directory exists and otherwise creates it or
\* raises.
GenFrontend ==
  /\ pc = "frontend"
  /\ img' = resize(source, FRONTEND_SIZE)
  /\ \E created \in BOOLEAN :
       IF dirs \/ created
         THEN /\ dirs' = TRUE
              /\ pc' = "frontend_save"
              /\ UNCHANGED failedAt
         ELSE /\ Raise("makedirs")
              /\ UNCHANGED dirs
  /\ UNCHANGED <<logo, fs, fs0, dirs0, run, source, i, out, saves, loads>>

\* l.50-51
SaveFrontend ==
  /\ pc = "frontend_save"
  /\ \E outcome \in SaveOutcomes :
       /\ fs' = FsAfterSave(fs, FRONTEND_ICON, File("PNG", run, {img}),
                            outcome, run)
       /\ saves' = Append(saves,
                          SaveCall(FRONTEND_ICON, "PNG", {img}, outcome))
       /\ IF outcome = "ok"
            THEN /\ out' = Append(out, FrontendLine)
                 /\ pc' = "ico"
                 /\ UNCHANGED failedAt
            ELSE /\ Raise("frontend")
                 /\ UNCHANGED out
  /\ UNCHANGED <<logo, dirs, fs0, dirs0, run, source, img, i, loads>>

\* l.54-63: the seven variants, then one save of the first of them with the
\* size list and the other six as append_images.  The sizes are the squares
\* (s, s), written here by their edge length s.
GenIco ==
  /\ pc = "ico"
  /\ LET ico_images == [k \in DOMAIN ico_sizes |-> resize(source, ico_sizes[k])]
         content == File("ICO", run,
                         IcoFrames(ico_images[1], ico_sizes, Tail(ico_images)))
     IN  \E outcome \in SaveOutcomes :
           /\ fs' = FsAfterSave(fs, ico_path, content, outcome, run)
           /\ saves' = Append(saves,
                              SaveCall(ico_path, "ICO", Range(ico_images),
                                       outcome))
           /\ IF outcome = "ok"
                THEN /\ out' = Append(out, IcoLine)
                     /\ pc' = "icns"
                     /\ UNCHANGED failedAt
                ELSE /\ Raise("ico")
                     /\ UNCHANGED out
  /\ UNCHANGED <<logo, dirs, fs0, dirs0, run, source, img, i, loads>>

\* The ICNS step opening icon.icns for writing itself before it calls save,
\* so that a save refused for lack of an encoder leaves the file truncated.
GenIcnsOpenFirst ==
  /\ pc = "icns"
  /\ \E outcome \in SaveOutcomes :
       /\ fs' = IF outcome = "ok"
                  THEN [fs EXCEPT ![icns_path] = File("ICNS", run, {source})]
                  ELSE [fs EXCEPT ![icns_path] = Partial(run)]
       /\ saves' = Append(saves,
                          SaveCall(icns_path, "ICNS", {source}, outcome))
       /\ out' = Append(out, IF outcome = "ok" THEN IcnsLine ELSE WarningLine)
       /\ pc' = "final"
  /\ UNCHANGED <<logo, dirs, fs0, dirs0, run, source, img, i, loads, failedAt>>

\* The ICNS step without its try/except.
GenIcnsNoCatch ==
  /\ pc = "icns"
  /\ \E outcome \in SaveOutcomes :
       /\ fs' = FsAfterSave(fs, icns_path, File("ICNS", run, {source}),
                            outcome, run)
       /\ saves' = Append(saves,
                          SaveCall(icns_path, "ICNS", {source}, outcome))
       /\ IF outcome = "ok"
            THEN /\ out' = Append(out, IcnsLine)
                 /\ pc' = "final"
                 /\ UNCHANGED failedAt
            ELSE /\ Raise("icns")
                 /\ UNCHANGED out
  /\ UNCHANGED <<logo, dirs, fs0, dirs0, run, source, img, i, loads>>

\* The ICNS step catching only the missing-encoder failure.
GenIcnsNarrowCatch ==
  /\ pc = "icns"
  /\ \E outcome \in SaveOutcomes :
       /\ fs' = FsAfterSave(fs, icns_path, File("ICNS", run, {source}),
                            outcome, run)
       /\ saves' = Append(saves,
                          SaveCall(icns_path, "ICNS", {source}, outcome))
       /\ IF outcome = "broken"
            THEN /\ Raise("icns")
                 /\ UNCHANGED out
            ELSE /\ out' = Append(out, IF outcome = "ok" THEN IcnsLine
                                       ELSE WarningLine)
                 /\ pc' = "final"
                 /\ UNCHANGED failedAt
  /\ UNCHANGED <<logo, dirs, fs0, dirs0, run, source, img, i, loads>>

\* l.66-71: source.save(icns_path, format="ICNS") inside try/except Exception
GenIcns ==
  /\ pc = "icns"
  /\ \E outcome \in SaveOutcomes :
       /\ fs' = FsAfterSave(fs, icns_path, File("ICNS", run, {source}),
                            outcome, run)
       /\ saves' = Append(saves,
                          SaveCall(icns_path, "ICNS", {source}, outcome))
       /\ out' = Append(out, IF outcome = "ok" THEN IcnsLine ELSE WarningLine)
       /\ pc' = "final"
  /\ UNCHANGED <<logo, dirs, fs0, dirs0, run, source, img, i, loads, failedAt>>

\* l.73-74
Finish ==
  /\ pc = "final"
  /\ out' = out \o <<BlankLine, DoneLine>>
  /\ pc' = "done"
  /\ UNCHANGED <<logo, fs, dirs, fs0, dirs0, run, source, img, i, saves,
                 loads, failedAt>>

Terminal == pc \in {"returned", "aborted", "done"}

\* l.77-78: the script is invoked again, on whatever is at SOURCE by then and
\* on the files the earlier runs left.
Restart ==
  /\ Terminal
  /\ run < MaxRuns
  /\ run' = run + 1
  /\ logo' \in Logos
  /\ fs0' = fs
  /\ dirs0' = dirs
  /\ pc' = "start"
  /\ source' = NoImage
  /\ img' = NoImage
  /\ i' = 1
  /\ out' = <<>>
  /\ saves' = <<>>
  /\ loads' = 0
  /\ failedAt' = "none"
  /\ UNCHANGED <<fs, dirs>>

\* l.31-74
main ==
  \/ CheckSource
  \/ LoadSource
  \/ GenPng
  \/ GenFrontend
  \/ SaveFrontend
  \/ GenIco
  \/ GenIcns
  \/ Finish

Next == main \/ Restart

Spec == Init /\ [][Next]_vars

\* A started run keeps executing its statements.
FairSpec == Spec /\ WF_vars(main)

\* ---------------------------------------------------------------------
\* Properties
\* ---------------------------------------------------------------------
Printed(line) == \E k \in DOMAIN out : out[k] = line
Count(line) == Cardinality({k \in DOMAIN out : out[k] = line})
SavesTo(p) == {k \in DOMAIN saves : saves[k].path = p}
WritesTo(p) == {k \in SavesTo(p) : saves[k].outcome = "ok"}
IcnsCalled == SavesTo(icns_path) # {}
IcnsOutcome == saves[CHOOSE k \in SavesTo(icns_path) : TRUE].outcome
ExpectedFmt(p) ==
  IF p = ico_path THEN "ICO" ELSE IF p = icns_path THEN "ICNS" ELSE "PNG"
WrittenThisRun(p) ==
  /\ fs[p].fmt = ExpectedFmt(p)
  /\ fs[p].run = run
  /\ fs[p].frames # {}
  /\ \A f \in fs[p].frames : f.base = source.base
NonIcnsPaths == OutputPaths \ {icns_path}

\* C1: when the source is missing the run prints only the error line naming
\* SOURCE and returns; no output file and no directory is created or
\* overwritten, no save is attempted, no progress or confirmation line appears.
C1_MissingSourceWritesNothing ==
  (logo = Missing /\ pc # "start") =>
    /\ pc = "returned"
    /\ out = <<ErrorLine>>
    /\ out[1].path = SOURCE
    /\ fs = fs0
    /\ dirs = dirs0
    /\ saves = <<>>
    /\ loads = 0

C1_Witness ==
  /\ pc = "returned"
  /\ logo = Missing
  /\ fs0[join(SCRIPT_DIR, "32x32.png")].fmt = "PNG"
  /\ ~dirs

\* C2: when the ICNS save fails for lack of an encoder, the run is not
\* aborted, the six other outputs have been written in this run and are
\* still in place, the confirmation line closes the output, and the run
\* goes on to completion.
C2_Safe ==
  (IcnsCalled /\ IcnsOutcome = "refused") =>
    /\ pc \in {"final", "done"}
    /\ failedAt = "none"
    /\ \A p \in NonIcnsPaths :
         WrittenThisRun(p) /\ Cardinality(WritesTo(p)) = 1
    /\ Cardinality(NonIcnsPaths) = 6
    /\ fs[icns_path] = fs0[icns_path]
    /\ (pc = "done" => Last(out) = DoneLine)

C2_IcnsFailureDoesNotBlock ==
  /\ []C2_Safe
  /\ ((IcnsCalled /\ IcnsOutcome = "refused" /\ pc = "final") ~> (pc = "done"))

C2_Witness ==
  /\ pc = "done"
  /\ IcnsCalled
  /\ IcnsOutcome = "refused"
  /\ Printed(WarningLine)

\* C3: after a successful ICO step icon.ico holds exactly the sizes
\* 16, 24, 32, 48, 64, 128, 256 and under each size s the bitmap
\* resize(source, s).
C3_IcoHoldsAllSizes ==
  (WritesTo(ico_path) # {}) =>
    /\ fs[ico_path].fmt = "ICO"
    /\ {f.w : f \in fs[ico_path].frames} = {16, 24, 32, 48, 64, 128, 256}
    /\ \A s \in {16, 24, 32, 48, 64, 128, 256} :
         {f \in fs[ico_path].frames : f.w = s} =
           {[w |-> s, h |-> s, mode |-> source.mode, base |-> source.base,
             gen |-> 1]}

\* C4: a completed run has saved exactly the four primary PNGs 32x32.png,
\* 128x128.png, 128x128@2x.png, icon.png with edges 32, 128, 256, 512 and
\* exactly one 256x256 PNG in the front-end directory, whatever the
\* dimensions of the source.
C4_Table ==
  { <<"32x32.png", 32>>, <<"128x128.png", 128>>, <<"128x128@2x.png", 256>>,
    <<"icon.png", 512>> }

C4_PngSaves(dir) ==
  {k \in DOMAIN saves : saves[k].fmt = "PNG" /\ dirname(saves[k].path) = dir}

C4_PngDimensions ==
  (pc = "done") =>
    /\ Cardinality(C4_PngSaves(SCRIPT_DIR)) = 4
    /\ {saves[k].path : k \in C4_PngSaves(SCRIPT_DIR)} =
         {<<SCRIPT_DIR, e[1]>> : e \in C4_Table}
    /\ \A e \in C4_Table :
         /\ fs[<<SCRIPT_DIR, e[1]>>].fmt = "PNG"
         /\ fs[<<SCRIPT_DIR, e[1]>>].run = run
         /\ Cardinality(fs[<<SCRIPT_DIR, e[1]>>].frames) = 1
         /\ \A f \in fs[<<SCRIPT_DIR, e[1]>>].frames :
              f.w = e[2] /\ f.h = e[2]
    /\ Cardinality(C4_PngSaves(ASSETS_DIR)) = 1
    /\ fs[<<ASSETS_DIR, "icon.png">>].fmt = "PNG"
    /\ fs[<<ASSETS_DIR, "icon.png">>].run = run
    /\ Cardinality(fs[<<ASSETS_DIR, "icon.png">>].frames) = 1
    /\ \A f \in fs[<<ASSETS_DIR, "icon.png">>].frames : f.w = 256 /\ f.h = 256

C4_Witness ==
  /\ pc = "done"
  /\ source.w = 20
  /\ source.h = 10

\* C5: a failure of the decode, of a PNG save, of the directory creation, of
\* the front-end save or of the ICO save ends the run there: it is the last
\* thing the run did, nothing is retried, no later output is touched, the
\* confirmation line is not printed, the outputs of the earlier steps stay in
\* place, and the run takes no further step; a failed ICNS save is the only
\* failure that does not end the run.
C5_Safe ==
  /\ failedAt # "icns"
  /\ (pc = "aborted") <=> (failedAt # "none")
  /\ \A k \in DOMAIN saves :
       (saves[k].outcome # "ok" /\ saves[k].path # icns_path) =>
         /\ pc = "aborted"
         /\ k = Len(saves)
         /\ failedAt \in {"png", "frontend", "ico"}
  /\ \A k \in DOMAIN saves :
       (saves[k].outcome # "ok" /\ pc # "aborted") => saves[k].path = icns_path
  /\ (logo.kind = "garbage" /\ pc \notin {"start", "open"}) =>
       /\ pc = "aborted"
       /\ failedAt = "decode"
       /\ saves = <<>>
       /\ fs = fs0
       /\ dirs = dirs0
  /\ (failedAt = "makedirs") =>
       /\ ~dirs
       /\ Len(saves) = Len(PNG_SIZES)
       /\ \A k \in DOMAIN saves :
            saves[k].outcome = "ok" /\ WrittenThisRun(saves[k].path)
  /\ (pc = "aborted") =>
       /\ ~Printed(DoneLine)
       /\ \A p \in OutputPaths : Cardinality(SavesTo(p)) <= 1
       /\ \A p \in OutputPaths : (SavesTo(p) = {}) => fs[p] = fs0[p]
       /\ \A k \in 1..(Len(saves) - 1) :
            /\ saves[k].outcome = "ok"
            /\ WrittenThisRun(saves[k].path)

C5_FailFast ==
  /\ []C5_Safe
  /\ [][(pc = "aborted") => (run' = run + 1 /\ pc' = "start")]_vars

C5_Witness ==
  /\ pc = "aborted"
  /\ failedAt = "ico"
  /\ Len(saves) = 6
  /\ WrittenThisRun(FRONTEND_ICON)

\* A save call that opened its file for writing: every call but a refused one.
C6_Opened(p) == {k \in SavesTo(p) : saves[k].outcome # "refused"}

\* C6 as stated: in a completed run each of the seven output paths is written
\* exactly once, the paths are pairwise distinct, and no two saves share a
\* path.
C6_Original ==
  (pc = "done") =>
    /\ Cardinality(OutputPaths) = 7
    /\ \A p \in OutputPaths : Cardinality(C6_Opened(p)) = 1
    /\ \A j, k \in DOMAIN saves : saves[j].path = saves[k].path => j = k

\* C6 amended: in a completed run each of the seven output paths is the
\* target of exactly one save call and is written at most once; each of the
\* six paths other than icon.icns is written exactly once and holds this
\* run's file; icon.icns holds this run's file when its save succeeded, is
\* exactly as it was when the run started when the save raised before opening
\* it, and is the truncated remainder of the earlier file (or still absent)
\* when the save raised while encoding; the seven paths are pairwise distinct
\* and no two saves share a path.
C6_WrittenOnce ==
  (pc = "done") =>
    /\ Cardinality(OutputPaths) = 7
    /\ Len(saves) = 7
    /\ \A p \in OutputPaths :
         Cardinality(SavesTo(p)) = 1 /\ Cardinality(C6_Opened(p)) <= 1
    /\ \A j, k \in DOMAIN saves : saves[j].path = saves[k].path => j = k
    /\ \A p \in NonIcnsPaths :
         /\ Cardinality(C6_Opened(p)) = 1
         /\ Cardinality(WritesTo(p)) = 1
         /\ WrittenThisRun(p)
    /\ Printed(IcnsLine) =>
         /\ WrittenThisRun(icns_path)
         /\ fs[icns_path].frames = {source}
         /\ Cardinality(C6_Opened(icns_path)) = 1
    /\ Printed(WarningLine) =>
         /\ ~WrittenThisRun(icns_path)
         /\ \/ /\ fs[icns_path] = fs0[icns_path]
               /\ fs0[icns_path] = NoFile \/ C6_Opened(icns_path) = {}
            \/ /\ fs[icns_path] = Partial(run)
               /\ fs0[icns_path] # NoFile
               /\ Cardinality(C6_Opened(icns_path)) = 1
    /\ (C6_Opened(icns_path) = {}) => fs[icns_path] = fs0[icns_path]
    /\ Printed(IcnsLine) \/ Printed(WarningLine)

C6_Witness ==
  /\ pc = "done"
  /\ IcnsOutcome = "refused"
  /\ fs0[icns_path].fmt = "ICNS"
  /\ fs[icns_path] = fs0[icns_path]
  /\ fs[icns_path].run < run
  /\ WrittenThisRun(join(SCRIPT_DIR, "icon.png"))
  /\ WrittenThisRun(FRONTEND_ICON)

\* C7 as stated: a run ends in one of two ways, by the early return when the
\* source is missing and by completion with the confirmation line whenever
\* the source exists.
C7_Original ==
  /\ (logo = Missing /\ pc # "start") =>
       (pc = "returned" /\ out = <<ErrorLine>> /\ fs = fs0)
  /\ (logo # Missing) => pc \notin {"returned", "aborted"}
  /\ (logo # Missing /\ pc = "done") => Last(out) = DoneLine

\* C7 amended: a run ends in one of three ways: the early return with the
\* error line and no file written when the source is missing; otherwise
\* completion with the confirmation line as the last line, or a propagated
\* failure of the decode, a PNG save, the directory creation, the front-end
\* save or the ICO save, without the confirmation line.  A run on an
\* existing source in which none of these steps fails is never aborted.
C7_Outcomes ==
  /\ (logo = Missing /\ pc # "start") =>
       (pc = "returned" /\ out = <<ErrorLine>> /\ fs = fs0 /\ dirs = dirs0)
  /\ (logo # Missing) => pc # "returned"
  /\ (logo # Missing /\ pc = "done") =>
       (Last(out) = DoneLine /\ Count(DoneLine) = 1)
  /\ (logo # Missing /\ pc = "aborted") =>
       /\ ~Printed(DoneLine)
       /\ \/ logo = Garbage /\ failedAt = "decode"
          \/ failedAt = "makedirs" /\ ~dirs
          \/ /\ failedAt \in {"png", "frontend", "ico"}
             /\ saves # <<>>
             /\ Last(saves).outcome # "ok"
             /\ Last(saves).path # icns_path
  /\ (pc # "done") => ~Printed(DoneLine)

C7_Witness ==
  /\ pc = "aborted"
  /\ logo.kind = "image"
  /\ failedAt = "frontend"

\* C8: when the confirmation line has been printed, every one of the seven
\* icon files was generated from the current source during this run.
C8_DoneMeansAllGenerated ==
  Printed(DoneLine) => \A p \in OutputPaths : WrittenThisRun(p)

\* C9: the source is decoded once and stays what was decoded; every image
\* handed to a PNG or ICO save is one resize away from that source, the ICO
\* save is handed seven of them, the ICNS save is handed the source itself.
C9_DerivedFromSource ==
  /\ loads <= 1
  /\ source \in {NoImage, [w |-> logo.w, h |-> logo.h, mode |-> "RGBA",
                            base |-> logo.id, gen |-> 0]}
  /\ (pc \notin {"start", "open", "returned", "aborted"}) =>
       (source # NoImage /\ loads = 1)
  /\ (saves # <<>>) => (source # NoImage /\ loads = 1)
  /\ \A k \in DOMAIN saves :
       IF saves[k].path = icns_path
         THEN saves[k].given = {source}
         ELSE /\ saves[k].given # {}
              /\ \A g \in saves[k].given :
                   /\ g.gen = 1
                   /\ g.base = source.base
                   /\ g.mode = source.mode
                   /\ g.w = g.h
  /\ \A k \in SavesTo(ico_path) : Cardinality(saves[k].given) = 7

C9_Witness ==
  /\ pc = "done"
  /\ Len(saves) = 7
  /\ IcnsOutcome = "ok"
  /\ fs[icns_path].frames = {source}

\* C10: once the ICNS save has been called, exactly one of the icon.icns
\* line and the warning line has been printed, once, the former exactly when
\* the save succeeded; the run is not aborted whatever the failure was, and
\* it goes on to print the confirmation line right after the blank line that
\* follows.
C10_Safe ==
  IcnsCalled =>
    /\ pc \in {"final", "done"}
    /\ failedAt = "none"
    /\ Count(IcnsLine) + Count(WarningLine) = 1
    /\ Printed(IcnsLine) <=> (IcnsOutcome = "ok")
    /\ Printed(WarningLine) <=> (IcnsOutcome \in {"refused", "broken"})
    /\ (pc = "final") => Last(out) \in {IcnsLine, WarningLine}
    /\ (pc = "done") =>
         /\ Last(out) = DoneLine
         /\ out[Len(out) - 2] \in {IcnsLine, WarningLine}

C10_IcnsNeverFatal ==
  /\ []C10_Safe
  /\ ((pc = "icns") ~> (pc = "done"))

C10_Witness ==
  /\ pc = "done"
  /\ IcnsOutcome = "broken"
  /\ Printed(WarningLine)
  /\ fs[icns_path].fmt = "partial"

====
